---- MODULE Spec2Model ----
(***************************************************************************)
(* Duplicate detection and multi-stage image verification of the           *)
(* nostr-object-identity server.                                           *)
(*                                                                         *)
(* ImageProcessor (utils/imageProcessing.js), AdvancedImageMatcher         *)
(* (utils/advancedImageMatching.js) and the handlers of server/index.js    *)
(* are modelled.  A fingerprint is a sequence of hex digits (0..15); an    *)
(* image is the record of what the image libraries compute from it.        *)
(***************************************************************************)
EXTENDS Integers, Sequences, FiniteSets, TLC

\* ------------------------------------------------------------------------
\* Bounds of the model
\* ------------------------------------------------------------------------

\* hex digits per fingerprint (64 in the program: 16x16 bits)
HashLen == 3

\* records in the store handed to a library call
MaxStore == 2

\* ------------------------------------------------------------------------
\* Program constants
\* ------------------------------------------------------------------------

\* JavaScript's Infinity, above every finite distance
Infinity == 1000000

\* `threshold <= 3`: variants are only tried in creation mode
CreationCutoff == 3

\* `distance <= 3` of the verifier's stage 1
DirectThreshold == 3

\* `distance <= 8` of the verifier's stage 2
RotationThreshold == 8

\* confidences and similarities in hundredths (0.95, 0.85, 1.0)
DirectConfidence == 95

RotationConfidence == 85

InitialSimilarity == 100

\* the threshold POST /api/objects passes to findBestMatch
DuplicateThreshold == 3

\* the default `threshold = 12` of findBestMatch
DefaultThreshold == 12

\* rotations and scales of generateRobustPHashFromBuffer, in loop order
VariantRotations == <<15, 30, 45, 90, 135, 180, 225, 270, 315, 345>>

\* scales in tenths (0.9, 1.1)
VariantScales == <<9, 11>>

\* rotationAngles of verifyImageMatch, in loop order
RotationAngles == <<5, 10, 15, 30, 45, 90, 180, 270, 345, 350, 355>>

\* ------------------------------------------------------------------------
\* Fingerprints
\* ------------------------------------------------------------------------

Pow2(k) == IF k = 0 THEN 1 ELSE IF k = 1 THEN 2 ELSE IF k = 2 THEN 4
           ELSE IF k = 3 THEN 8 ELSE 16

\* the literal '000...0' the primary hash is compared with
ZeroHash == [i \in 1..HashLen |-> 0]

\* fingerprint whose n lowest bits are set (digit 1 holds bits 0..3)
LowBits(n) ==
    [i \in 1..HashLen |->
        IF n >= 4 * i THEN 15
        ELSE IF n <= 4 * (i - 1) THEN 0
        ELSE Pow2(n - 4 * (i - 1)) - 1]

\* the bits of the first digit that the second lacks
BitXor_AndNot(a, b) ==
    LET bit(n, k) == (n \div Pow2(k)) % 2
        x(k) == (bit(a, k) * (1 - bit(b, k))) * Pow2(k)
    IN  x(0) + x(1) + x(2) + x(3)

\* hex1 ^ hex2 on two hex digits
BitXor(a, b) ==
    LET bit(n, k) == (n \div Pow2(k)) % 2
        x(k) == ((bit(a, k) + bit(b, k)) % 2) * Pow2(k)
    IN  x(0) + x(1) + x(2) + x(3)

\* only the lowest bit counted
countSetBits_LowBit(n) == n % 2

RECURSIVE countSetBits(_)
countSetBits(n) ==
    IF n = 0 THEN 0 ELSE (n % 2) + countSetBits(n \div 2)

\* the value a throwing call yields
Throw == -1

RECURSIVE IPDistanceFrom(_, _, _)
IPDistanceFrom(hash1, hash2, i) ==
    IF i > Len(hash1) THEN 0
    ELSE countSetBits(BitXor(hash1[i], hash2[i])) + IPDistanceFrom(hash1, hash2, i + 1)

\* ImageProcessor.hammingDistance: throws on a length mismatch
hammingDistance(hash1, hash2) ==
    IF Len(hash1) # Len(hash2) THEN Throw
    ELSE IPDistanceFrom(hash1, hash2, 1)

\* Number.prototype.toString(2): the binary digits, most significant first
RECURSIVE ToBinaryString(_)
ToBinaryString(n) ==
    IF n < 2 THEN <<n>> ELSE Append(ToBinaryString(n \div 2), n % 2)

\* s.split('1').length - 1: the number of '1' separators in s
SplitOnesMinusOne(s) == Cardinality({k \in 1..Len(s) : s[k] = 1})

RECURSIVE AMDistanceFrom(_, _, _)
AMDistanceFrom(hash1, hash2, i) ==
    IF i > Len(hash1) THEN 0
    ELSE SplitOnesMinusOne(ToBinaryString(BitXor(hash1[i], hash2[i])))
         + AMDistanceFrom(hash1, hash2, i + 1)

\* AdvancedImageMatcher.hammingDistance: Infinity on a length mismatch
amHammingDistance(hash1, hash2) ==
    IF Len(hash1) # Len(hash2) THEN Infinity
    ELSE AMDistanceFrom(hash1, hash2, 1)

\* ------------------------------------------------------------------------
\* Images: what sharp and image-hash compute from an uploaded buffer
\* ------------------------------------------------------------------------

\* bit counts of the fingerprints the inputs are drawn from; their pairwise
\* distances are 2, 3, 4, 5, 6, 7, 8, 9, 10 and 12
PoolBits == {0, 2, 4, 6, 9, 12}

HashPool == {LowBits(n) : n \in PoolBits}

\* hashes of the rotated images
TransformPool == {LowBits(0), LowBits(2), LowBits(9), LowBits(12)}

\* hashes of the rescaled images
ScaledPool == {LowBits(4), LowBits(12)}

\* digests the fallback derivation may produce
FallbackPool == {LowBits(6), LowBits(9)}

\* dec:    sharp can decode the buffer
\* orig:   image-hash of the normalized image re-encoded by toFile
\* tilt:   image-hash after a rotation of at most 15 degrees either way
\* turn:   image-hash after any other rotation
\* scaled: image-hash after the 0.9 / 1.1 resize
\* fb:     first HashLen digits of the sha256 of the fallback data
\* once:   image-hash of the normalized image written by a single toFile
\* bad:    position in the variant list of the variant whose generation
\*         fails (its rotate, resize, toFile or image-hash rejects); 0: none
\* rot:    the angle by which the photograph is rotated against its source
\*         picture; tilt and turn are told by the angle against the source
\* back:   image-hash after a rotation that brings the picture back to the
\*         orientation of its source
ImageOf(o, ti, tu, sc, f, on) ==
    [dec |-> TRUE, orig |-> o, tilt |-> ti, turn |-> tu, scaled |-> sc,
     fb |-> f, once |-> on, bad |-> 0, rot |-> 0, back |-> o]

\* a buffer sharp rejects; nothing is ever computed from its other fields
Undecodable ==
    [dec |-> FALSE, orig |-> ZeroHash, tilt |-> ZeroHash, turn |-> ZeroHash,
     scaled |-> ZeroHash, fb |-> ZeroHash, once |-> ZeroHash, bad |-> 0,
     rot |-> 0, back |-> ZeroHash]

\* the fallback digest only exists for images whose primary is all zero
Images ==
    {ImageOf(o, ti, tu, sc, f, o) :
        o \in HashPool \ {ZeroHash}, ti \in TransformPool, tu \in TransformPool,
        sc \in ScaledPool, f \in {ZeroHash}}
    \cup
    {ImageOf(ZeroHash, ti, tu, sc, f, ZeroHash) :
        ti \in TransformPool, tu \in TransformPool, sc \in ScaledPool,
        f \in FallbackPool}
    \cup {Undecodable}

\* image-hash of the image rotated by `angle` degrees
RotatedHash(img, angle) ==
    LET net == (img.rot + angle) % 360 IN
    IF net = 0 THEN img.back
    ELSE IF net <= 15 \/ net >= 345 THEN img.tilt ELSE img.turn

\* ------------------------------------------------------------------------
\* ImageProcessor
\* ------------------------------------------------------------------------

\* generateRobustPHashFromBuffer: {primary, variants}; the variants start
\* with the 'original' hash, then the rotations, then the scales.  One try
\* block holds every step and its catch rethrows, so a step that fails for
\* one variant fails the call.
generateRobustPHashFromBuffer(img) ==
    LET originalHash == img.orig
        hashes == <<originalHash>>
                  \o [k \in 1..Len(VariantRotations) |->
                        RotatedHash(img, VariantRotations[k])]
                  \o [k \in 1..Len(VariantScales) |-> img.scaled]
        primaryHash == originalHash
    IN  IF ~img.dec \/ img.bad # 0
        THEN [threw |-> TRUE, primary |-> <<>>, variants |-> <<>>]
        ELSE IF primaryHash = ZeroHash
        THEN [threw |-> FALSE, primary |-> img.fb, variants |-> hashes]
        ELSE [threw |-> FALSE, primary |-> primaryHash, variants |-> hashes]

\* `null` and a match object of findBestMatch
NoMatch == [found |-> FALSE, objectId |-> [name |-> "", ts |-> 0], distance |-> 0, hash |-> <<>>]

Match(objectId, distance, hash) ==
    [found |-> TRUE, objectId |-> objectId, distance |-> distance, hash |-> hash]

\* the threshold test forgotten for the primary
PrimaryImproves_NoThreshold(primaryDistance, threshold, bestDistance) ==
    primaryDistance < bestDistance

\* a later record wins a tie
PrimaryImproves_TieToLatest(primaryDistance, threshold, bestDistance) ==
    primaryDistance <= threshold /\ primaryDistance <= bestDistance

\* `primaryDistance <= threshold && primaryDistance < bestDistance`
PrimaryImproves(primaryDistance, threshold, bestDistance) ==
    primaryDistance <= threshold /\ primaryDistance < bestDistance

\* variants tried at every threshold
TryVariants_NoCutoff(primaryDistance, threshold) ==
    primaryDistance > threshold

\* `primaryDistance > threshold && threshold <= 3`
TryVariants(primaryDistance, threshold) ==
    primaryDistance > threshold /\ threshold <= CreationCutoff

\* the threshold test forgotten for variants
VariantImproves_NoThreshold(distance, threshold, bestDistance) ==
    distance < bestDistance

\* `distance < bestDistance && distance <= threshold`
VariantImproves(distance, threshold, bestDistance) ==
    distance < bestDistance /\ distance <= threshold

\* the inner loop over newHashes.slice(1) for one stored record; a throwing
\* comparison is caught and the loop goes on
RECURSIVE VariantLoop(_, _, _, _, _, _)
VariantLoop(newHashes, j, rec, recIdx, threshold, acc) ==
    IF j > Len(newHashes) THEN acc
    ELSE
        LET distance == hammingDistance(newHashes[j], rec.hash)
            logged == [acc EXCEPT !.cmp =
                          Append(@, [kind |-> "variant", rec |-> recIdx,
                                     v |-> j - 1, distance |-> distance])]
        IN  IF distance # Throw /\ VariantImproves(distance, threshold, acc.bestDistance)
            THEN VariantLoop(newHashes, j + 1, rec, recIdx, threshold,
                    [logged EXCEPT
                        !.bestDistance = distance,
                        !.bestMatch = Match(rec.objectId, distance, rec.hash)])
            ELSE VariantLoop(newHashes, j + 1, rec, recIdx, threshold, logged)

\* the loop over hashToObjectMap.entries(); a throwing primary comparison
\* leaves the loop for the outer catch
RECURSIVE RecordLoop(_, _, _, _, _)
RecordLoop(newHashData, map, i, threshold, acc) ==
    IF i > Len(map) THEN acc
    ELSE
        LET rec == map[i]
            newHashes == <<newHashData.primary>> \o newHashData.variants
            primaryDistance == hammingDistance(newHashData.primary, rec.hash)
            logged == [acc EXCEPT !.cmp =
                          Append(@, [kind |-> "primary", rec |-> i, v |-> 0,
                                     distance |-> primaryDistance])]
            afterVariants(afterPrimary) ==
                IF TryVariants(primaryDistance, threshold)
                THEN VariantLoop(newHashes, 2, rec, i, threshold, afterPrimary)
                ELSE afterPrimary
        IN  IF primaryDistance = Throw
            THEN [logged EXCEPT !.threw = TRUE]
            ELSE IF PrimaryImproves(primaryDistance, threshold, acc.bestDistance)
            THEN RecordLoop(newHashData, map, i + 1, threshold,
                    afterVariants([logged EXCEPT
                        !.bestDistance = primaryDistance,
                        !.bestMatch = Match(rec.objectId, primaryDistance, rec.hash)]))
            ELSE RecordLoop(newHashData, map, i + 1, threshold, afterVariants(logged))

\* findBestMatch(newImageBuffer, hashToObjectMap, threshold): every error is
\* caught and answered with null.  cmp lists the comparisons in order;
\* caught: the outer catch block ran; threw: an error reached the caller
findBestMatch(img, map, threshold) ==
    LET newHashData == generateRobustPHashFromBuffer(img)
        start == [bestMatch |-> NoMatch, bestDistance |-> Infinity,
                  cmp |-> <<>>, threw |-> FALSE]
        end == RecordLoop(newHashData, map, 1, threshold, start)
    IN  IF newHashData.threw
        THEN [result |-> NoMatch, caught |-> TRUE, threw |-> FALSE, cmp |-> <<>>]
        ELSE IF end.threw
        THEN [result |-> NoMatch, caught |-> TRUE, threw |-> FALSE, cmp |-> end.cmp]
        ELSE [result |-> end.bestMatch, caught |-> FALSE, threw |-> FALSE,
              cmp |-> end.cmp]

\* ------------------------------------------------------------------------
\* AdvancedImageMatcher
\* ------------------------------------------------------------------------

\* the `results` object verifyImageMatch starts from
InitialResults ==
    [stage1_phash |-> [matched |-> FALSE, distance |-> Infinity, confidence |-> 0],
     stage2_rotation |-> [matched |-> FALSE, distance |-> Infinity, confidence |-> 0],
     stage3_color |-> [matched |-> FALSE, similarity |-> InitialSimilarity, confidence |-> 0],
     stage4_edge |-> [matched |-> FALSE, similarity |-> InitialSimilarity, confidence |-> 0],
     overall |-> [matched |-> FALSE, confidence |-> 0, method |-> "none"]]

Min(a, b) == IF a < b THEN a ELSE b

\* off by one at the stage-1 threshold
DirectHit_Strict(distance) == distance < DirectThreshold

\* `distance <= 3` of stage 1
DirectHit(distance) == distance <= DirectThreshold

\* off by one at the stage-2 threshold
RotationHit_Strict(distance) == distance < RotationThreshold

\* `distance <= 8` of stage 2
RotationHit(distance) == distance <= RotationThreshold

\* the hash verifyImageMatch computes from the normalized buffer: the same
\* toBuffer / toFile / image-hash pipeline as the 'original' variant
InputHash(img) == img.orig

\* the hash of the buffer rotated by a probe angle
ProbeHash(img, angle) == RotatedHash(img, angle)

\* stage 1: scan storedHashes, return at the first hit.  `seen` lists the
\* comparisons made, `hit` the position of the stored hash that returned.
RECURSIVE Stage1Loop(_, _, _, _)
Stage1Loop(inputHash, storedHashes, i, acc) ==
    IF i > Len(storedHashes) THEN acc
    ELSE
        LET distance == amHammingDistance(inputHash, storedHashes[i])
            seen == Append(acc.seen, [stage |-> 1, angle |-> 0, rec |-> i,
                                      distance |-> distance])
        IN  IF DirectHit(distance)
            THEN [acc EXCEPT
                    !.results.stage1_phash =
                        [matched |-> TRUE, distance |-> distance,
                         confidence |-> DirectConfidence],
                    !.results.overall =
                        [matched |-> TRUE, confidence |-> DirectConfidence,
                         method |-> "direct_phash"],
                    !.seen = seen,
                    !.returned = TRUE,
                    !.hit = [stage |-> 1, angle |-> 0, rec |-> i]]
            ELSE Stage1Loop(inputHash, storedHashes, i + 1,
                    [acc EXCEPT
                        !.results.stage1_phash.distance = Min(@, distance),
                        !.seen = seen])

\* stage 2, one angle: scan storedHashes with the rotated hash
RECURSIVE Stage2Records(_, _, _, _, _)
Stage2Records(rotatedHash, angle, storedHashes, i, acc) ==
    IF i > Len(storedHashes) THEN acc
    ELSE
        LET distance == amHammingDistance(rotatedHash, storedHashes[i])
            seen == Append(acc.seen, [stage |-> 2, angle |-> angle, rec |-> i,
                                      distance |-> distance])
        IN  IF RotationHit(distance)
            THEN [acc EXCEPT
                    !.results.stage2_rotation =
                        [matched |-> TRUE, distance |-> distance,
                         confidence |-> RotationConfidence],
                    !.results.overall =
                        [matched |-> TRUE, confidence |-> RotationConfidence,
                         method |-> "rotation_phash"],
                    !.seen = seen,
                    !.returned = TRUE,
                    !.hit = [stage |-> 2, angle |-> angle, rec |-> i]]
            ELSE Stage2Records(rotatedHash, angle, storedHashes, i + 1,
                    [acc EXCEPT
                        !.results.stage2_rotation.distance = Min(@, distance),
                        !.seen = seen])

\* stage 2: the angles in the order of rotationAngles; the image is rotated
\* and hashed for an angle before the stored hashes are looked at
RECURSIVE Stage2Loop(_, _, _, _)
Stage2Loop(img, storedHashes, a, acc) ==
    IF a > Len(RotationAngles) \/ acc.returned THEN acc
    ELSE Stage2Loop(img, storedHashes, a + 1,
            Stage2Records(ProbeHash(img, RotationAngles[a]), RotationAngles[a],
                          storedHashes, 1,
                          [acc EXCEPT !.rotated = Append(@, RotationAngles[a])]))

\* a colour stage that accepts on its own
Stage34_ColorDecides(acc) ==
    [acc EXCEPT !.computed = <<"generateColorHistogram", "generateEdgeHash">>,
                !.results.stage3_color.matched = TRUE,
                !.results.overall =
                    [matched |-> TRUE, confidence |-> 70, method |-> "color_histogram"]]

\* stages 3 and 4: the histogram and the edge hash of the input are computed
\* and compared with nothing
Stage34(acc) ==
    [acc EXCEPT !.computed = <<"generateColorHistogram", "generateEdgeHash">>]

NoHit == [stage |-> 0, angle |-> 0, rec |-> 0]

\* verifyImageMatch(imageBuffer, storedHashes): an error anywhere inside is
\* caught and answered with the results built so far, so no call throws.
\* returned: a stage returned early; caught: the catch block ran;
\* threw: an error reached the caller; rotated: the angles the input was
\* rotated and hashed for; computed: what stages 3 and 4 computed
verifyImageMatch(img, storedHashes) ==
    LET start == [results |-> InitialResults, seen |-> <<>>, returned |-> FALSE,
                  hit |-> NoHit, caught |-> FALSE, threw |-> FALSE,
                  rotated |-> <<>>, computed |-> <<>>]
        afterStage1 == Stage1Loop(InputHash(img), storedHashes, 1, start)
        afterStage2 == Stage2Loop(img, storedHashes, 1, afterStage1)
    IN  IF ~img.dec THEN [start EXCEPT !.caught = TRUE]
        ELSE IF afterStage1.returned THEN afterStage1
        ELSE IF afterStage2.returned THEN afterStage2
        ELSE Stage34(afterStage2)

\* ------------------------------------------------------------------------
\* State
\* ------------------------------------------------------------------------

\* Date.now() never exceeds this in a checked behaviour
MaxClock == 1

\* request slots of POST /api/objects that can be in flight together
MaxReq == 2

\* view counts are followed up to this value
MaxViews == 1

\* generateRobustPHashFromBuffer calls that can be in progress together
MaxJobs == 2

\* variants of a bundle whose temporary files are followed
MaxTemp == 2

\* zap requests in flight
MaxZaps == 2

\* largest satsBalance followed
MaxSats == 3

\* requests the CreateObject form sends
MaxSent == 2

VARIABLES
    hashDatabase,    \* Map pHash -> objectId, as its entries in insertion order
    objectDatabase,  \* Map objectId -> object record
    call,            \* the last library call and what it returned
    reg,             \* the POST /api/objects requests in flight, by slot
    response,        \* the answer last sent and not yet read
    now,             \* Date.now()
    firstOwner,      \* history: image -> id of the first object stored for it
    tmp,             \* the files under /tmp/temp_*: name and what was written
    job,             \* the generateRobustPHashFromBuffer calls in progress
    physicalIdDatabase,  \* Map physicalId -> objectId
    zap,             \* the POST /api/objects/:id/zap requests in flight, by slot
    orphans,         \* records replaced in objectDatabase that a zap still holds
    form,            \* the state of the CreateObject component
    customOwner      \* history: custom physical ID -> first object stored with it

vars == <<hashDatabase, objectDatabase, call, reg, response, now, firstOwner, tmp, job,
          physicalIdDatabase, zap, orphans, form, customOwner>>

\* generateObjectId(name, artist, timestamp): a digest of its arguments
generateObjectId(label, timestamp) == [name |-> label, ts |-> timestamp]

NoId == [name |-> "", ts |-> 0]

Absent == NoMatch

\* Map.prototype.keys() / has / get / set on the entry sequence
Keys(map) == [i \in 1..Len(map) |-> map[i].hash]

MapHas(map, hash) == \E i \in 1..Len(map) : map[i].hash = hash

MapGet(map, hash) ==
    IF MapHas(map, hash)
    THEN map[CHOOSE i \in 1..Len(map) : map[i].hash = hash].objectId
    ELSE NoId

\* set keeps the position of an existing key and replaces its value
MapSet(map, hash, objectId) ==
    IF MapHas(map, hash)
    THEN [i \in 1..Len(map) |->
            IF map[i].hash = hash THEN [hash |-> hash, objectId |-> objectId]
            ELSE map[i]]
    ELSE Append(map, [hash |-> hash, objectId |-> objectId])

\* ------------------------------------------------------------------------
\* Physical identifiers
\* ------------------------------------------------------------------------

\* The text of an identifier is told by how it was made (kind) and from what:
\* a typed text by its letters (label), a generated one by the arguments of
\* the template it was built from.  A string as typed is its text and
\* whether white space surrounds it (pad).
EmptyText == [kind |-> "empty", ts |-> 0, rnd |-> "", label |-> ""]

Typed(letters) == [kind |-> "typed", ts |-> 0, rnd |-> "", label |-> letters]

Str(text, padded) == [pad |-> padded, text |-> text]

\* String.prototype.trim
trim(str) == [str EXCEPT !.pad = FALSE]

\* a string is truthy unless it is ''
Truthy(str) == str.pad \/ str.text # EmptyText

\* crypto.randomBytes(16).toString('hex').substring(0, 8)
Randoms == {"r1", "r2"}

\* PhysicalIdentifier.generatePhysicalId: the identifier is built from the
\* time, the random bytes and a digest of name, artist, type and time; of
\* objectData.customPhysicalId nothing is read
generatePhysicalId(objectData, timestamp, randomBytes) ==
    [physicalId |-> [kind |-> "full", ts |-> timestamp, rnd |-> randomBytes,
                     label |-> objectData.label],
     shortId    |-> [kind |-> "short", ts |-> timestamp, rnd |-> randomBytes,
                     label |-> ""],
     numericId  |-> [kind |-> "numeric", ts |-> timestamp, rnd |-> "",
                     label |-> objectData.label]]

\* PhysicalIdentifier.generateVerificationMethods: the identifiers of
\* generatePhysicalId, with the QR code and the certificate
generateVerificationMethods(objectData, timestamp, randomBytes) ==
    generatePhysicalId(objectData, timestamp, randomBytes)

\* the customPhysicalId fields a request may carry: absent (the default ''),
\* white space, an ISBN, the ISBN with white space around it
NoCustom == Str(EmptyText, FALSE)

Isbn == Typed("ISBN-1")

\* ------------------------------------------------------------------------
\* Library calls on a given store
\* ------------------------------------------------------------------------

StoreKeys == HashPool \ {ZeroHash}

StoreNames == <<"obj-A", "obj-B", "obj-C", "obj-D">>

RECURSIVE KeySeqs(_)
KeySeqs(n) ==
    IF n = 0 THEN {<<>>}
    ELSE LET shorter == KeySeqs(n - 1) IN
         shorter \cup
         {Append(q, k) : q \in {x \in shorter : Len(x) = n - 1},
                         k \in StoreKeys}

\* the Maps a call is tried on: distinct keys, ids in insertion order
Stores ==
    {[i \in 1..Len(q) |-> [hash |-> q[i], objectId |-> generateObjectId(StoreNames[i], 0)]] :
        q \in {x \in KeySeqs(MaxStore) : \A i, j \in 1..Len(x) : i # j => x[i] # x[j]}}

\* thresholds tried: creation mode (<= 3) and above
Thresholds == {1, 3, 4, 6}

NoCall ==
    [op |-> "none", img |-> Undecodable, threshold |-> 0,
     bundle |-> [threw |-> FALSE, primary |-> <<>>, variants |-> <<>>],
     hash1 |-> <<>>, hash2 |-> <<>>,
     distance |-> [ip |-> 0, ipSwapped |-> 0, am |-> 0, amSwapped |-> 0],
     match |-> [result |-> Absent, caught |-> FALSE, threw |-> FALSE, cmp |-> <<>>],
     report |-> verifyImageMatch(Undecodable, <<>>)]

IdleReq ==
    [pc |-> "idle", img |-> Undecodable, label |-> "", pHash |-> <<>>,
     uniqueId |-> NoId, prior |-> NoId, customPhysicalId |-> NoCustom]

\* an answer: the fields of both routes, and for the properties the image
\* sent (img), the object first stored for it (prior) and the stored hash
\* that made verifyImageMatch return (hit)
NoResponse ==
    [route |-> "", status |-> 0, img |-> Undecodable,
     dup |-> Absent, prior |-> NoId,
     verified |-> FALSE, message |-> "", objectId |-> NoId, confidence |-> 0,
     method |-> "none", stage1_distance |-> 0, stage2_distance |-> 0,
     hit |-> NoHit,
     physicalId |-> EmptyText, requested |-> EmptyText,
     amount |-> [given |-> FALSE, value |-> 0],
     artistShare |-> 0, objectShare |-> 0, newBalance |-> 0]

Reqs == 1..MaxReq

Jobs == 1..MaxJobs

IdleJob ==
    [pc |-> "idle", img |-> Undecodable, base |-> 0, k |-> 0, hashes |-> <<>>,
     outcome |-> "none"]

Zaps == 1..MaxZaps

\* a zap request in flight: the object it took from objectDatabase is the
\* record stored under id (ref = 0) or the replaced record orphans[ref]
IdleZap == [pc |-> "idle", id |-> NoId, amount |-> 0, ref |-> 0]

\* useState of CreateObject (lines 4-17): strings are '' or not, the file is
\* selected or null
InitialFormData == [name |-> "", artist |-> "", customPhysicalId |-> NoCustom]

\* pc: handleSubmit is idle or awaits fetch; submit: how the last call of
\* handleSubmit went; sent: the requests sent so far; request: the fields of
\* the last one
InitialForm ==
    [formData |-> InitialFormData, selectedFile |-> FALSE, loading |-> FALSE,
     error |-> "", result |-> "none", pc |-> "idle", submit |-> "none",
     sent |-> 0, request |-> InitialFormData]

ServerIdle ==
    /\ reg = [r \in Reqs |-> IdleReq]
    /\ response = NoResponse
    /\ now = 0
    /\ firstOwner = <<>>
    /\ tmp = {}
    /\ job = [j \in Jobs |-> IdleJob]
    /\ physicalIdDatabase = <<>>
    /\ zap = [z \in Zaps |-> IdleZap]
    /\ orphans = <<>>
    /\ form = InitialForm
    /\ customOwner = <<>>

Init ==
    /\ hashDatabase \in Stores
    /\ objectDatabase = <<>>
    /\ call = NoCall
    /\ ServerIdle

\* a duplicate check that enters the query's primary when nothing matched
FindBestMatchCall_Writes ==
    /\ call.op = "none"
    /\ \E img \in Images, threshold \in Thresholds :
        LET match == findBestMatch(img, hashDatabase, threshold)
            pHashData == generateRobustPHashFromBuffer(img)
        IN
        /\ call' = [NoCall EXCEPT
                      !.op = "findBestMatch", !.img = img, !.threshold = threshold,
                      !.match = match]
        /\ hashDatabase' =
              IF match.result.found \/ pHashData.threw THEN hashDatabase
              ELSE MapSet(hashDatabase, pHashData.primary, NoId)
        /\ UNCHANGED <<objectDatabase, reg, response, now, firstOwner, tmp, job,
                    physicalIdDatabase, zap, orphans, form, customOwner>>

FindBestMatchCall ==
    /\ call.op = "none"
    /\ \E img \in Images, threshold \in Thresholds :
        /\ call' = [NoCall EXCEPT
                      !.op = "findBestMatch", !.img = img, !.threshold = threshold,
                      !.match = findBestMatch(img, hashDatabase, threshold)]
        /\ UNCHANGED <<hashDatabase, objectDatabase, reg, response, now, firstOwner, tmp, job,
                    physicalIdDatabase, zap, orphans, form, customOwner>>

VerifyImageMatchCall ==
    /\ call.op = "none"
    /\ \E img \in Images :
        /\ call' = [NoCall EXCEPT
                      !.op = "verifyImageMatch", !.img = img,
                      !.report = verifyImageMatch(img, Keys(hashDatabase))]
        /\ UNCHANGED <<hashDatabase, objectDatabase, reg, response, now, firstOwner, tmp, job,
                    physicalIdDatabase, zap, orphans, form, customOwner>>

\* the caller has consumed the result
Return ==
    /\ call.op # "none"
    /\ call' = NoCall
    /\ UNCHANGED <<hashDatabase, objectDatabase, reg, response, now, firstOwner, tmp, job,
                    physicalIdDatabase, zap, orphans, form, customOwner>>

Next == FindBestMatchCall \/ VerifyImageMatchCall \/ Return

Spec == Init /\ [][Next]_vars

\* a stored hash one digit shorter than every hash image-hash returns
ShortHash == SubSeq(LowBits(2), 1, HashLen - 1)

\* the Maps of Stores in which one key is replaced by the short hash
MixedStores ==
    UNION {{[i \in 1..Len(st) |->
                IF i = k THEN [st[i] EXCEPT !.hash = ShortHash] ELSE st[i]] :
            k \in 1..Len(st)} : st \in Stores}

\* images of which the generation of one variant may fail
FlawedImages ==
    {[img EXCEPT !.bad = k] :
        img \in Images \ {Undecodable},
        k \in 0..(1 + Len(VariantRotations) + Len(VariantScales))}

GenerateBundleCall ==
    /\ call.op = "none"
    /\ \E img \in FlawedImages \cup {Undecodable} :
        /\ call' = [NoCall EXCEPT
                      !.op = "generateRobustPHashFromBuffer", !.img = img,
                      !.bundle = generateRobustPHashFromBuffer(img)]
        /\ UNCHANGED <<hashDatabase, objectDatabase, reg, response, now, firstOwner, tmp, job,
                    physicalIdDatabase, zap, orphans, form, customOwner>>

BundleInit ==
    /\ hashDatabase = <<>>
    /\ objectDatabase = <<>>
    /\ call = NoCall
    /\ ServerIdle

BundleNext == GenerateBundleCall \/ Return

\* bundle generation on its own
BundleSpec == BundleInit /\ [][BundleNext]_vars

\* length of the hashes the two hammingDistance methods are compared on
DistLen == 5

\* hex digits of the first and of the second argument: between them the
\* digits differ in 0, 1, 2, 3 and 4 bits
LeftDigits == {4, 5}

RightDigits == {4, 7, 10}

LeftHashes == [1..DistLen -> LeftDigits]

RightHashes == [1..DistLen -> RightDigits]

\* both hammingDistance methods on a pair of hashes, in both argument orders
HammingDistanceCall ==
    /\ call.op = "none"
    /\ \E a \in LeftHashes, b \in RightHashes :
        /\ call' = [NoCall EXCEPT
                      !.op = "hammingDistance", !.hash1 = a, !.hash2 = b,
                      !.distance = [ip |-> hammingDistance(a, b),
                                    ipSwapped |-> hammingDistance(b, a),
                                    am |-> amHammingDistance(a, b),
                                    amSwapped |-> amHammingDistance(b, a)]]
        /\ UNCHANGED <<hashDatabase, objectDatabase, reg, response, now, firstOwner, tmp, job,
                    physicalIdDatabase, zap, orphans, form, customOwner>>

DistanceInit ==
    /\ hashDatabase = <<>>
    /\ objectDatabase = <<>>
    /\ call = NoCall
    /\ ServerIdle

DistanceNext == HammingDistanceCall \/ Return

\* the two hammingDistance methods on their own
DistanceSpec == DistanceInit /\ [][DistanceNext]_vars

\* library calls on a store holding a hash of another length
LengthInit ==
    /\ hashDatabase \in MixedStores
    /\ objectDatabase = <<>>
    /\ call = NoCall
    /\ ServerIdle

LengthSpec == LengthInit /\ [][Next]_vars

\* ------------------------------------------------------------------------
\* The server: POST /api/objects and POST /api/verify
\* ------------------------------------------------------------------------

\* images uploaded to the server
\*   Plain:  an ordinary image
\*   Other:  an ordinary image far from Plain
\*   Tilted: its slightly rotated copies hash like Other, and writing its
\*           normalized form once gives another hash than writing it twice
\*   Blank:  a uniform image, whose primary is the fallback digest
Plain == ImageOf(LowBits(2), LowBits(12), LowBits(12), LowBits(12), ZeroHash, LowBits(2))

Other == ImageOf(LowBits(12), LowBits(12), LowBits(12), LowBits(12), ZeroHash, LowBits(12))

Tilted == ImageOf(LowBits(6), LowBits(12), LowBits(0), LowBits(12), ZeroHash, LowBits(4))

Blank == ImageOf(ZeroHash, LowBits(12), LowBits(12), LowBits(12), LowBits(9), ZeroHash)

\* images sent for registration and for verification
RegisterImages == {Plain, Other, Blank, Undecodable}

VerifyImages == {Plain, Tilted, Blank, Undecodable}

\* `${name}-${artist}` of a request
Labels == {"x"}

\* the numeric identifier printed for an object registered at time 0
PrintedNumericId == generatePhysicalId([label |-> "x"], 0, "r1").numericId

\* customPhysicalId fields of the requests: absent, white space, an ISBN,
\* the ISBN with white space around it, and the printed numeric identifier
CustomIds ==
    {NoCustom, Str(EmptyText, TRUE), Str(Isbn, FALSE), Str(Isbn, TRUE),
     Str(PrintedNumericId, FALSE)}

ObjectRecord(id, label, pHash, physicalVerification) ==
    [id |-> id, label |-> label, pHash |-> pHash, views |-> 0, satsBalance |-> 0,
     physicalId |-> physicalVerification.physicalId]

\* Map.prototype.set on objectDatabase
DbSet(db, id, record) ==
    [k \in DOMAIN db \cup {id} |-> IF k = id THEN record ELSE db[k]]

\* Every handler step waits until the last answer has been read, so that an
\* answer is seen in the state it was given in; AnswerRead is always enabled
\* then and changes nothing else, so no interleaving of the handlers is lost.
\* A request takes the first free slot: the slots are interchangeable.

\* a request with name, artist and file arrives; a custom physical ID that
\* is a key of physicalIdDatabase is refused (lines 481-510)
Arrive(r, images, customIds) ==
    /\ reg[r].pc = "idle"
    /\ \A earlier \in 1..(r - 1) : reg[earlier].pc # "idle"
    /\ response = NoResponse
    /\ \E img \in images, label \in Labels, customPhysicalId \in customIds :
        LET trimmedCustomId == trim(customPhysicalId).text
            checked == Truthy(customPhysicalId) /\ Truthy(trim(customPhysicalId))
        IN
        IF checked /\ trimmedCustomId \in DOMAIN physicalIdDatabase
        THEN /\ response' =
                  [NoResponse EXCEPT
                     !.route = "objects", !.status = 409, !.img = img,
                     !.message = "Physical ID already exists",
                     !.requested = trimmedCustomId,
                     !.objectId = physicalIdDatabase[trimmedCustomId]]
             /\ UNCHANGED reg
        ELSE /\ reg' = [reg EXCEPT ![r] =
                          [IdleReq EXCEPT !.pc = "processing", !.img = img,
                                          !.label = label,
                                          !.customPhysicalId = customPhysicalId]]
             /\ UNCHANGED response
    /\ UNCHANGED <<hashDatabase, objectDatabase, call, now, firstOwner, tmp, job,
                   physicalIdDatabase, zap, orphans, form, customOwner>>

\* a request without a custom physical ID
RegArrive(r) == Arrive(r, RegisterImages, {NoCustom})

\* a registration that keeps the hash of the first rotated variant
pHashOf_Variant(pHashData) == pHashData.variants[2]

\* const pHash = pHashData.primary (line 517)
pHashOf(pHashData) == pHashData.primary

\* the image is processed and hashed and the store is searched for a
\* duplicate (lines 512-539); prior is the object first stored for this image
RegCheck(r) ==
    LET q == reg[r]
        pHashData == generateRobustPHashFromBuffer(q.img)
        duplicateMatch == findBestMatch(q.img, hashDatabase, DuplicateThreshold).result
        prior == IF q.img \in DOMAIN firstOwner THEN firstOwner[q.img] ELSE NoId
        answer == [NoResponse EXCEPT !.route = "objects", !.img = q.img, !.prior = prior]
    IN  /\ q.pc = "processing"
        /\ response = NoResponse
        /\ IF pHashData.threw
           THEN /\ reg' = [reg EXCEPT ![r] = IdleReq]
                /\ response' = [answer EXCEPT !.status = 500]
           ELSE IF duplicateMatch.found
           THEN /\ reg' = [reg EXCEPT ![r] = IdleReq]
                /\ response' = [answer EXCEPT !.status = 409, !.dup = duplicateMatch]
           ELSE /\ reg' = [reg EXCEPT ![r] =
                              [q EXCEPT !.pc = "saving", !.pHash = pHashOf(pHashData),
                                        !.uniqueId = generateObjectId(q.label, now),
                                        !.prior = prior]]
                /\ response' = response
        /\ UNCHANGED <<hashDatabase, objectDatabase, call, now, firstOwner, tmp, job,
                    physicalIdDatabase, zap, orphans, form, customOwner>>

\* the zaps that hold the record stored under id
Holders(id) == {z \in Zaps : zap[z].pc = "publishing" /\ zap[z].id = id /\ zap[z].ref = 0}

\* a name for a record that leaves objectDatabase while a zap holds it
FreeRef == CHOOSE n \in 1..(MaxZaps + 1) : n \notin DOMAIN orphans

\* objectDatabase.set(id, record) seen from the zaps in flight: a replaced
\* record that a zap still holds is kept, and its holders follow it
Displaced(id) ==
    IF id \in DOMAIN objectDatabase /\ Holders(id) # {}
    THEN DbSet(orphans, FreeRef, objectDatabase[id])
    ELSE orphans

Following(id) ==
    IF id \in DOMAIN objectDatabase
    THEN [z \in Zaps |-> IF z \in Holders(id)
                         THEN [zap[z] EXCEPT !.ref = FreeRef]
                         ELSE zap[z]]
    ELSE zap

\* files, event and certificates are written, the physical identifiers are
\* generated, then the maps are updated and the object is returned (lines
\* 541-670)
Store(r, randoms) ==
    LET q == reg[r] IN
    /\ q.pc = "saving"
    /\ response = NoResponse
    /\ \E randomBytes \in randoms :
        LET physicalVerification ==
                generateVerificationMethods(
                    [label |-> q.label,
                     customPhysicalId |-> trim(q.customPhysicalId)],
                    now, randomBytes)
            objectRecord == ObjectRecord(q.uniqueId, q.label, q.pHash,
                                         physicalVerification)
        IN
        /\ objectDatabase' = DbSet(objectDatabase, q.uniqueId, objectRecord)
        /\ hashDatabase' = MapSet(hashDatabase, q.pHash, q.uniqueId)
        /\ physicalIdDatabase' =
              DbSet(DbSet(DbSet(physicalIdDatabase,
                                physicalVerification.physicalId, q.uniqueId),
                          physicalVerification.shortId, q.uniqueId),
                    physicalVerification.numericId, q.uniqueId)
        /\ response' = [NoResponse EXCEPT
                          !.route = "objects", !.img = q.img,
                          !.status = 200, !.objectId = q.uniqueId,
                          !.requested = trim(q.customPhysicalId).text,
                          !.physicalId = physicalVerification.physicalId]
    /\ orphans' = Displaced(q.uniqueId)
    /\ zap' = Following(q.uniqueId)
    /\ firstOwner' = IF q.img \in DOMAIN firstOwner THEN firstOwner
                     ELSE DbSet(firstOwner, q.img, q.uniqueId)
    /\ customOwner' =
          LET custom == trim(q.customPhysicalId).text IN
          IF custom = EmptyText \/ custom \in DOMAIN customOwner THEN customOwner
          ELSE DbSet(customOwner, custom, q.uniqueId)
    /\ reg' = [reg EXCEPT ![r] = IdleReq]
    /\ UNCHANGED <<call, now, tmp, job, form>>

\* a request stored while the random bytes come out as "r1"
RegStore(r) == Store(r, {"r1"})

\* writing a file or generating the QR codes and certificates fails: the
\* catch answers 500 before anything was entered in the maps (lines 541-613,
\* 672-675)
RegFail(r) ==
    LET q == reg[r] IN
    /\ q.pc = "saving"
    /\ response = NoResponse
    /\ reg' = [reg EXCEPT ![r] = IdleReq]
    /\ response' = [NoResponse EXCEPT !.route = "objects", !.img = q.img,
                                      !.status = 500, !.prior = q.prior]
    /\ UNCHANGED <<hashDatabase, objectDatabase, call, now, firstOwner, tmp, job,
                   physicalIdDatabase, zap, orphans, form, customOwner>>

\* the millisecond clock advances
Tick ==
    /\ now < MaxClock
    /\ response = NoResponse
    /\ now' = now + 1
    /\ UNCHANGED <<hashDatabase, objectDatabase, call, reg, response, firstOwner, tmp, job,
                    physicalIdDatabase, zap, orphans, form, customOwner>>

\* the stored hash the handler takes for the one that matched (lines 738-769)
ResolveMatchedHash(img, method, storedHashes) ==
    IF method = "direct_phash"
    THEN LET inputHash == img.once
             hits == {i \in 1..Len(storedHashes) :
                        amHammingDistance(inputHash, storedHashes[i]) <= DirectThreshold}
         IN  IF hits = {} THEN <<>>
             ELSE storedHashes[CHOOSE i \in hits : \A j \in hits : i <= j]
    ELSE IF method = "rotation_phash" THEN storedHashes[1]
    ELSE <<>>

\* POST /api/verify (lines 696-810)
VerifyRequest ==
    \E img \in VerifyImages :
        LET storedHashes == Keys(hashDatabase)
            matchResults == verifyImageMatch(img, storedHashes)
            matchedHash == ResolveMatchedHash(img, matchResults.results.overall.method,
                                              storedHashes)
            matchedObjectId == MapGet(hashDatabase, matchedHash)
            answer == [NoResponse EXCEPT !.route = "verify", !.img = img, !.status = 200]
            debug == [answer EXCEPT
                        !.hit = matchResults.hit,
                        !.stage1_distance = matchResults.results.stage1_phash.distance,
                        !.stage2_distance = matchResults.results.stage2_rotation.distance]
        IN
        /\ response = NoResponse
        /\ IF storedHashes = <<>>
           THEN /\ response' =
                     [answer EXCEPT !.message = "No objects in database to compare against"]
                /\ UNCHANGED objectDatabase
           ELSE IF ~matchResults.results.overall.matched
           THEN /\ response' = [debug EXCEPT !.message = "No matching object found"]
                /\ UNCHANGED objectDatabase
           ELSE IF matchedObjectId = NoId
           THEN /\ response' =
                     [answer EXCEPT !.hit = matchResults.hit,
                                    !.message = "Object found but could not retrieve details"]
                /\ UNCHANGED objectDatabase
           ELSE IF matchedObjectId \notin DOMAIN objectDatabase
           THEN /\ response' =
                     [answer EXCEPT !.hit = matchResults.hit,
                                    !.message = "Object reference found but object data missing"]
                /\ UNCHANGED objectDatabase
           ELSE /\ objectDatabase[matchedObjectId].views < MaxViews
                /\ objectDatabase' =
                     [objectDatabase EXCEPT ![matchedObjectId].views = @ + 1]
                /\ response' =
                     [debug EXCEPT
                        !.verified = TRUE,
                        !.objectId = matchedObjectId,
                        !.confidence = matchResults.results.overall.confidence,
                        !.method = matchResults.results.overall.method]
        /\ UNCHANGED <<hashDatabase, call, reg, now, firstOwner, tmp, job,
                    physicalIdDatabase, zap, orphans, form, customOwner>>

\* the client has read the answer
AnswerRead ==
    /\ response # NoResponse
    /\ response' = NoResponse
    /\ UNCHANGED <<hashDatabase, objectDatabase, call, reg, now, firstOwner, tmp, job,
                    physicalIdDatabase, zap, orphans, form, customOwner>>

ServerInit ==
    /\ hashDatabase = <<>>
    /\ objectDatabase = <<>>
    /\ call = NoCall
    /\ ServerIdle

ServerNext ==
    \/ \E r \in Reqs : RegArrive(r)
    \/ \E r \in Reqs : RegCheck(r)
    \/ \E r \in Reqs : RegStore(r)
    \/ \E r \in Reqs : RegFail(r)
    \/ Tick
    \/ VerifyRequest
    \/ AnswerRead

ServerSpec == ServerInit /\ [][ServerNext]_vars

\* ------------------------------------------------------------------------
\* Concurrent generateRobustPHashFromBuffer calls and their temporary files
\* ------------------------------------------------------------------------

\* A call names its files `/tmp/temp_${Date.now()}_<variant>.jpg`: a file is
\* identified by the millisecond the call started in (base) and the position
\* k of the variant; what a file holds is the image it was written from.
\* Each await is a step: toFile (JobWrite), image-hash on the file
\* (JobHash), and the import before the synchronous unlinks (JobCleanup).

\* images of the calls in progress
JobImages == {Plain, Other}

\* image-hash of the k-th variant file when it was written from img
VariantHashAt(img, k) == generateRobustPHashFromBuffer(img).variants[k]

\* the bundle's first MaxTemp variants when the call runs alone
AloneHashes(img) == SubSeq(generateRobustPHashFromBuffer(img).variants, 1, MaxTemp)

FileAt(base, k) == {f \in tmp : f.base = base /\ f.k = k}

\* the call starts: tempBasePath is fixed (line 28), the image is normalized
JobStart(j) ==
    \E img \in JobImages :
        /\ job[j].pc = "idle"
        /\ \A earlier \in 1..(j - 1) : job[earlier].pc # "idle"
        /\ job' = [job EXCEPT ![j] =
                      [IdleJob EXCEPT !.pc = "write", !.img = img, !.base = now, !.k = 1]]
        /\ UNCHANGED <<hashDatabase, objectDatabase, call, reg, response, now,
                       firstOwner, tmp, physicalIdDatabase, zap, orphans, form, customOwner>>

\* sharp(...).toFile(path) of variant k: the file is created or overwritten
JobWrite(j) ==
    LET q == job[j] IN
    /\ q.pc = "write"
    /\ tmp' = (tmp \ FileAt(q.base, q.k))
                 \cup {[base |-> q.base, k |-> q.k, img |-> q.img]}
    /\ job' = [job EXCEPT ![j].pc = "hash"]
    /\ UNCHANGED <<hashDatabase, objectDatabase, call, reg, response, now, firstOwner,
                 physicalIdDatabase, zap, orphans, form, customOwner>>

\* generatePHash(path) of variant k: hashes what the file holds now; a missing
\* file makes image-hash fail and the call rethrows
JobHash(j) ==
    LET q == job[j]
        file == FileAt(q.base, q.k)
    IN
    /\ q.pc = "hash"
    /\ IF file = {}
       THEN job' = [job EXCEPT ![j].pc = "done", ![j].outcome = "threw"]
       ELSE LET held == CHOOSE f \in file : TRUE
                hashes == Append(q.hashes, VariantHashAt(held.img, q.k))
            IN  job' = [job EXCEPT
                          ![j].hashes = hashes,
                          ![j].pc = IF q.k < MaxTemp THEN "write" ELSE "cleanup",
                          ![j].k = IF q.k < MaxTemp THEN q.k + 1 ELSE q.k]
    /\ UNCHANGED <<hashDatabase, objectDatabase, call, reg, response, now,
                   firstOwner, tmp, physicalIdDatabase, zap, orphans, form, customOwner>>

\* the files named from tempBasePath are unlinked and the bundle is returned
JobCleanup(j) ==
    LET q == job[j] IN
    /\ q.pc = "cleanup"
    /\ tmp' = {f \in tmp : f.base # q.base}
    /\ job' = [job EXCEPT ![j].pc = "done", ![j].outcome = "returned"]
    /\ UNCHANGED <<hashDatabase, objectDatabase, call, reg, response, now, firstOwner,
                 physicalIdDatabase, zap, orphans, form, customOwner>>

TempInit ==
    /\ hashDatabase = <<>>
    /\ objectDatabase = <<>>
    /\ call = NoCall
    /\ ServerIdle

TempNext ==
    \/ \E j \in Jobs : JobStart(j)
    \/ \E j \in Jobs : JobWrite(j)
    \/ \E j \in Jobs : JobHash(j)
    \/ \E j \in Jobs : JobCleanup(j)
    \/ Tick

TempSpec == TempInit /\ [][TempNext]_vars

\* ------------------------------------------------------------------------
\* Properties of findBestMatch
\* ------------------------------------------------------------------------

\* a findBestMatch call that got as far as a bundle has returned
BundleMatched == call.op = "findBestMatch" /\ call.img.dec

CallBundle == generateRobustPHashFromBuffer(call.img)

Records == 1..Len(hashDatabase)

PrimaryDist(i) == hammingDistance(CallBundle.primary, hashDatabase[i].hash)

VariantDists(i) ==
    LET variants == CallBundle.variants IN
    {hammingDistance(variants[j], hashDatabase[i].hash) : j \in 1..Len(variants)}

Least(S) == CHOOSE x \in S : \A y \in S : x <= y

\* the distance at which record i is admitted: its primary distance when that
\* is within the threshold; otherwise, in creation mode, its least variant
\* distance when that is within the threshold; otherwise Infinity
AdmittedDist(i) ==
    LET primary == PrimaryDist(i)
        close == {d \in VariantDists(i) : d <= call.threshold}
    IN  IF primary <= call.threshold THEN primary
        ELSE IF call.threshold <= CreationCutoff /\ close # {} THEN Least(close)
        ELSE Infinity

\* the records within reach, each with its distance
PrimaryAdmissible ==
    {e \in {<<i, PrimaryDist(i)>> : i \in Records} : e[2] <= call.threshold}

Admitted ==
    {e \in {<<i, AdmittedDist(i)>> : i \in Records} : e[2] < Infinity}

\* the earliest record among those of least distance, as a match
ResultFor(table) ==
    IF table = {} THEN Absent
    ELSE LET least == Least({e[2] : e \in table})
             i == Least({e[1] : e \in {x \in table : x[2] = least}})
         IN  Match(hashDatabase[i].objectId, least, hashDatabase[i].hash)

\* C1 as claimed: findBestMatch returns absent exactly when no stored record
\* has a primary distance within the threshold, and otherwise the record of
\* least primary distance, the earliest one on a tie.
C1_BestPrimaryMatch ==
    BundleMatched => call.match.result = ResultFor(PrimaryAdmissible)

\* C1 amended: findBestMatch returns absent exactly when no stored record is
\* admitted by its primary distance or, in creation mode, by a variant
\* distance; otherwise it returns the record with the least admitted distance,
\* the earliest one on a tie.
C1_BestAdmittedMatch ==
    BundleMatched => call.match.result = ResultFor(Admitted)

\* two records tie at the least distance, and the earlier one, admitted by a
\* variant only, is returned
C1_Witness ==
    /\ BundleMatched
    /\ call.match.result.found
    /\ \E e, f \in Admitted :
          /\ e[1] < f[1]
          /\ e[2] = f[2]
          /\ e[2] = call.match.result.distance
          /\ call.match.result.hash = hashDatabase[e[1]].hash
          /\ PrimaryDist(e[1]) > call.threshold

VariantComparisons ==
    {k \in 1..Len(call.match.cmp) : call.match.cmp[k].kind = "variant"}

\* C2: a variant is compared with a stored record only when threshold <= 3
\* and only for a record whose primary distance is above the threshold; at a
\* threshold above 3 the result is the one the primary distances alone give.
C2_VariantsOnlyInCreationMode ==
    call.op = "findBestMatch" =>
        /\ LET far == {i \in Records : PrimaryDist(i) > call.threshold} IN
           \A k \in VariantComparisons :
              /\ call.threshold <= 3
              /\ call.match.cmp[k].rec \in far
        /\ (call.img.dec /\ call.threshold > 3) =>
              call.match.result = ResultFor(PrimaryAdmissible)

\* in creation mode one record is admitted by its primary and gets no variant
\* comparison, another is not and gets them
C2_Witness ==
    /\ BundleMatched
    /\ call.threshold <= 3
    /\ \E i, j \in Records :
          /\ PrimaryDist(i) <= call.threshold
          /\ PrimaryDist(j) > call.threshold
          /\ \A k \in VariantComparisons : call.match.cmp[k].rec # i
          /\ \E k \in VariantComparisons : call.match.cmp[k].rec = j

\* C3: a returned match has distance <= threshold, its hash is a key of the
\* store and its objectId is the value stored under that key.
C3_MatchIsStoredAndWithinThreshold ==
    (call.op = "findBestMatch" /\ call.match.result.found) =>
        /\ call.match.result.distance <= call.threshold
        /\ MapHas(hashDatabase, call.match.result.hash)
        /\ call.match.result.objectId = MapGet(hashDatabase, call.match.result.hash)

\* a match that came from a variant comparison
C3_Witness ==
    /\ call.op = "findBestMatch"
    /\ call.match.result.found
    /\ \E i \in Records :
          /\ hashDatabase[i].hash = call.match.result.hash
          /\ PrimaryDist(i) > call.threshold

\* the store {h1 -> obj-A} and a query whose primary is at distance 2 from h1
ScenarioC4 ==
    /\ BundleMatched
    /\ Len(hashDatabase) = 1
    /\ hashDatabase[1].objectId = generateObjectId("obj-A", 0)
    /\ PrimaryDist(1) = 2

\* C4 as claimed: in the scenario, threshold 3 returns obj-A at distance 2
\* and threshold 1 returns absent.
C4_ScenarioAsClaimed ==
    ScenarioC4 =>
        /\ call.threshold = 3 =>
              call.match.result =
                  Match(generateObjectId("obj-A", 0), 2, hashDatabase[1].hash)
        /\ call.threshold = 1 => ~call.match.result.found

\* C4 amended: in the scenario, threshold 3 returns obj-A at distance 2, and
\* threshold 1 returns absent when no variant of the query is within
\* distance 1 of h1.
C4_ScenarioNoCloseVariant ==
    ScenarioC4 =>
        /\ call.threshold = 3 =>
              call.match.result =
                  Match(generateObjectId("obj-A", 0), 2, hashDatabase[1].hash)
        /\ (call.threshold = 1 /\ \A d \in VariantDists(1) : d > 1) =>
              ~call.match.result.found

\* the scenario at threshold 1 with every variant further than 1 from h1
C4_Witness ==
    /\ ScenarioC4
    /\ call.threshold = 1
    /\ \A d \in VariantDists(1) : d > 1
    /\ ~call.match.result.found

\* ------------------------------------------------------------------------
\* Properties of verifyImageMatch
\* ------------------------------------------------------------------------

\* a verifyImageMatch call on a decodable image has returned
Verified == call.op = "verifyImageMatch" /\ call.img.dec

StoredHashes == Keys(hashDatabase)

DirectDist(i) == amHammingDistance(InputHash(call.img), StoredHashes[i])

ProbeDist(a, i) ==
    amHammingDistance(ProbeHash(call.img, RotationAngles[a]), StoredHashes[i])

DirectHits == {i \in Records : DirectDist(i) <= 3}

Probes == (1..Len(RotationAngles)) \X Records

ProbeHits == {p \in Probes : ProbeDist(p[1], p[2]) <= 8}

\* angle-major order of the probes
Before(p, q) == p[1] < q[1] \/ (p[1] = q[1] /\ p[2] <= q[2])

FirstProbeHit == CHOOSE p \in ProbeHits : \A q \in ProbeHits : Before(p, q)

SeenAt(stage) == SelectSeq(call.report.seen, LAMBDA e : e.stage = stage)

\* C6: stage 1 scans the stored hashes in store order; the first one within
\* distance 3 of the input hash ends the verification with stage 1 matched,
\* confidence 0.95 and method direct_phash, and no later record is examined.
C6_DirectStageFirstHit ==
    (Verified /\ DirectHits # {}) =>
        LET f == Least(DirectHits) IN
        /\ call.report.results.stage1_phash =
              [matched |-> TRUE, distance |-> DirectDist(f), confidence |-> 95]
        /\ call.report.results.overall =
              [matched |-> TRUE, confidence |-> 95, method |-> "direct_phash"]
        /\ call.report.hit = [stage |-> 1, angle |-> 0, rec |-> f]
        /\ call.report.seen =
              [i \in 1..f |-> [stage |-> 1, angle |-> 0, rec |-> i,
                               distance |-> DirectDist(i)]]

\* the first hit is at distance 3 and a later record is strictly closer
C6_Witness ==
    /\ Verified
    /\ call.report.hit.stage = 1
    /\ call.report.results.stage1_phash.distance = 3
    /\ \E j \in Records :
          j > call.report.hit.rec /\ DirectDist(j) < DirectDist(call.report.hit.rec)

\* C7: stage 2 runs only when no stored hash is within 3 of the input hash;
\* it probes the angles in list order and, per angle, the stored hashes in
\* store order, and the first pair within distance 8 ends the verification
\* with stage 2 matched, confidence 0.85 and method rotation_phash.
C7_RotationStageFirstHit ==
    Verified =>
        /\ SeenAt(2) # <<>> => DirectHits = {}
        /\ (DirectHits = {} /\ ProbeHits # {}) =>
              LET p == FirstProbeHit
                  tried == {q \in Probes : Before(q, p)}
                  s2 == SeenAt(2)
              IN
              /\ call.report.results.stage2_rotation =
                    [matched |-> TRUE, distance |-> ProbeDist(p[1], p[2]),
                     confidence |-> 85]
              /\ call.report.results.overall =
                    [matched |-> TRUE, confidence |-> 85, method |-> "rotation_phash"]
              /\ call.report.hit =
                    [stage |-> 2, angle |-> RotationAngles[p[1]], rec |-> p[2]]
              /\ Len(s2) = Cardinality(tried)
              /\ \A k \in 1..Len(s2) :
                    \E q \in tried :
                        /\ Cardinality({t \in tried : Before(t, q)}) = k
                        /\ s2[k] = [stage |-> 2, angle |-> RotationAngles[q[1]],
                                    rec |-> q[2], distance |-> ProbeDist(q[1], q[2])]

\* the first angle hits, at distance 8, the second record only, although a
\* later angle would hit the first record
C7_Witness ==
    /\ Verified
    /\ call.report.hit = [stage |-> 2, angle |-> 5, rec |-> 2]
    /\ call.report.results.stage2_rotation.distance = 8
    /\ \E a \in 1..Len(RotationAngles) : ProbeDist(a, 1) <= 8

\* C9: a report with overall.matched = false over a non-empty store carries
\* in stage 1 the least distance of the input hash to a stored hash and in
\* stage 2 the least distance over all angle/record pairs, both above their
\* thresholds.
C9_MinimaReported ==
    (call.op = "verifyImageMatch" /\ hashDatabase # <<>>
        /\ ~call.report.results.overall.matched) =>
        /\ call.img.dec
        /\ call.report.results.stage1_phash.distance =
              Least({DirectDist(i) : i \in Records})
        /\ call.report.results.stage2_rotation.distance =
              Least({ProbeDist(p[1], p[2]) : p \in Probes})
        /\ call.report.results.stage1_phash.distance > 3
        /\ call.report.results.stage2_rotation.distance > 8

\* C10: when the input image cannot be canonicalized the call throws: no
\* report is returned.
C10_CanonicalizationFailureAborts ==
    (call.op = "verifyImageMatch" /\ ~call.img.dec) => call.report.threw

\* what holds of C9 when the image can be decoded
C9_DecodableOnly ==
    (Verified /\ hashDatabase # <<>> /\ ~call.report.results.overall.matched) =>
        /\ call.report.results.stage1_phash.distance =
              Least({DirectDist(i) : i \in Records})
        /\ call.report.results.stage2_rotation.distance =
              Least({ProbeDist(p[1], p[2]) : p \in Probes})
        /\ call.report.results.stage1_phash.distance > 3
        /\ call.report.results.stage2_rotation.distance > 8

\* ------------------------------------------------------------------------
\* Properties of the server
\* ------------------------------------------------------------------------

\* C5: once an image has been stored, the duplicate check of every later
\* registration of the same image finds distance 0 for the object that was
\* stored first for it, and the registration is refused.
C5_DuplicateOfFirstRecord ==
    /\ \A r \in Reqs : reg[r].pc = "saving" => reg[r].prior = NoId
    /\ (response.route = "objects" /\ response.prior # NoId) =>
          /\ response.status = 409
          /\ response.dup.found
          /\ response.dup.distance = 0
          /\ response.dup.objectId = response.prior

\* what is left of C5 under concurrent registrations: the later attempt is
\* refused at distance 0, whichever object the store names
C5_RefusedAtDistanceZero ==
    /\ \A r \in Reqs : reg[r].pc = "saving" => reg[r].prior = NoId
    /\ (response.route = "objects" /\ response.prior # NoId) =>
          /\ response.status = 409
          /\ response.dup.found
          /\ response.dup.distance = 0

\* C8: when verifyImageMatch reports a match, the object answered is the one
\* stored under the hash that produced the hit.
C8_ReportedRecordIsTheHit ==
    (response.route = "verify" /\ response.hit.stage # 0) =>
        /\ response.verified
        /\ response.objectId = hashDatabase[response.hit.rec].objectId

\* ------------------------------------------------------------------------
\* Properties of the error paths
\* ------------------------------------------------------------------------

\* C11: findBestMatch on an image that cannot be decoded raises an error to
\* its caller and does not answer null.
C11_UndecodableIsRaised ==
    (call.op = "findBestMatch" /\ ~call.img.dec) =>
        /\ call.match.threw
        /\ ~call.match.caught

\* a comparison of the call met a stored hash of another length
MetMismatch ==
    \/ /\ call.op = "findBestMatch"
       /\ \E k \in 1..Len(call.match.cmp) : call.match.cmp[k].distance = Throw
    \/ /\ call.op = "verifyImageMatch"
       /\ \E k \in 1..Len(call.report.seen) :
             Len(hashDatabase[call.report.seen[k].rec].hash) # Len(InputHash(call.img))

\* C12: a call that compares hashes of different lengths aborts with the
\* length error: it is not answered with null, a match or a report.
C12_LengthMismatchAborts ==
    MetMismatch =>
        IF call.op = "findBestMatch" THEN call.match.threw ELSE call.report.threw

\* the sequence s without its k-th element
Without(s, k) == SubSeq(s, 1, k - 1) \o SubSeq(s, k + 1, Len(s))

\* C13: when the generation of one rotation or scale variant fails, the
\* bundle is still returned, with the primary and every other variant.
C13_FailedVariantIsOmitted ==
    (call.op = "generateRobustPHashFromBuffer" /\ call.img.dec /\ call.img.bad >= 2) =>
        LET whole == generateRobustPHashFromBuffer([call.img EXCEPT !.bad = 0]) IN
        /\ ~call.bundle.threw
        /\ call.bundle.primary = whole.primary
        /\ call.bundle.variants = Without(whole.variants, call.img.bad)

\* ------------------------------------------------------------------------
\* Properties of the fallback hash
\* ------------------------------------------------------------------------

\* the image is uniform: its primary is the fallback digest
HasFallbackPrimary(img) == img.dec /\ img.orig = ZeroHash

\* the stored hash is the fallback digest of a registered image
StoredAsFallback(hash) ==
    \E img \in DOMAIN firstOwner : HasFallbackPrimary(img) /\ img.fb = hash

\* C14: a fallback hash is only compared with fallback hashes: the duplicate
\* check compares the query's primary only with stored hashes of its own
\* kind and no variant with a stored fallback hash, and the verifier, whose
\* input hash is never a fallback, compares nothing with a stored fallback.
C14_FallbackOnlyAgainstFallback ==
    /\ (response.route = "objects" /\ response.status = 409) =>
          LET cmp == findBestMatch(response.img, hashDatabase, DuplicateThreshold).cmp IN
          \A k \in 1..Len(cmp) :
              LET stored == StoredAsFallback(hashDatabase[cmp[k].rec].hash) IN
              IF cmp[k].kind = "primary"
              THEN stored <=> HasFallbackPrimary(response.img)
              ELSE ~stored
    /\ (response.route = "verify" /\ response.img.dec) =>
          LET seen == verifyImageMatch(response.img, Keys(hashDatabase)).seen IN
          \A k \in 1..Len(seen) : ~StoredAsFallback(hashDatabase[seen[k].rec].hash)

\* ------------------------------------------------------------------------
\* Properties of the stages of verifyImageMatch
\* ------------------------------------------------------------------------

\* C15: on an empty store verifyImageMatch reports overall.matched = false
\* without rotating the input for any angle and without any other stage
\* computation.
C15_EmptyStoreNoStageWork ==
    (Verified /\ hashDatabase = <<>>) =>
        /\ ~call.report.results.overall.matched
        /\ call.report.rotated = <<>>
        /\ call.report.computed = <<>>

\* C16: in every report the colour and edge entries are unmatched with
\* confidence 0, and overall.matched is true exactly when stage 1 or stage 2
\* produced a hit.
C16_LaterStagesDecideNothing ==
    call.op = "verifyImageMatch" =>
        LET results == call.report.results IN
        /\ results.stage3_color = [matched |-> FALSE, similarity |-> 100, confidence |-> 0]
        /\ results.stage4_edge = [matched |-> FALSE, similarity |-> 100, confidence |-> 0]
        /\ results.overall.matched <=>
              (results.stage1_phash.matched \/ results.stage2_rotation.matched)
        /\ results.overall.matched <=> call.report.hit.stage \in {1, 2}

\* stages 3 and 4 ran on a non-empty store and the report is unmatched
C16_Witness ==
    /\ Verified
    /\ hashDatabase # <<>>
    /\ call.report.computed = <<"generateColorHistogram", "generateEdgeHash">>
    /\ ~call.report.results.overall.matched

\* ------------------------------------------------------------------------
\* Properties of the Hamming distance
\* ------------------------------------------------------------------------

Measured == call.op = "hammingDistance"

\* bit k of a hex digit
BitAt(digit, k) == (digit \div (2 ^ k)) % 2

\* number of bits in which two hex digits differ
BitsApart(x, y) == Cardinality({k \in 0..3 : BitAt(x, k) # BitAt(y, k)})

RECURSIVE SumUpTo(_, _)
SumUpTo(f, n) == IF n = 0 THEN 0 ELSE f[n] + SumUpTo(f, n - 1)

\* number of bits in which two hashes of equal length differ
DifferingBits(a, b) ==
    SumUpTo([i \in 1..Len(a) |-> BitsApart(a[i], b[i])], Len(a))

\* C17: both hammingDistance methods give the same value for (a, b) and for
\* (b, a).
C17_DistanceSymmetric ==
    Measured =>
        /\ call.distance.ip = call.distance.ipSwapped
        /\ call.distance.am = call.distance.amSwapped

\* two hashes of which each has bits the other lacks
C17_Witness ==
    /\ Measured
    /\ \E i \in 1..Len(call.hash1) : call.hash1[i] = 5 /\ call.hash2[i] = 10
    /\ \E i \in 1..Len(call.hash1) : call.hash1[i] = 4 /\ call.hash2[i] = 7
    /\ call.distance.ip > 0
    /\ call.distance.ipSwapped = call.distance.ip

\* exactly five digits differ, each in exactly one bit
FiveSingleBits ==
    /\ Cardinality({i \in 1..Len(call.hash1) :
                      BitsApart(call.hash1[i], call.hash2[i]) = 1}) = 5
    /\ \A i \in 1..Len(call.hash1) : BitsApart(call.hash1[i], call.hash2[i]) <= 1

\* C18: both hammingDistance methods return the number of differing bits of
\* two hashes of equal length n: 0 exactly for identical hashes, at most 4n,
\* and 5 when exactly five digits differ in exactly one bit each.
C18_DistanceCountsBits ==
    Measured =>
        LET n == Len(call.hash1)
            d == call.distance.ip
        IN  /\ d = DifferingBits(call.hash1, call.hash2)
            /\ call.distance.am = d
            /\ d = 0 <=> call.hash1 = call.hash2
            /\ d >= 0 /\ d <= 4 * n
            /\ FiveSingleBits => d = 5

\* five digits differ in one bit each and both methods say 5
C18_Witness ==
    /\ Measured
    /\ FiveSingleBits
    /\ call.distance.ip = 5
    /\ call.distance.am = 5

\* ------------------------------------------------------------------------
\* Properties of the store during library calls
\* ------------------------------------------------------------------------

\* C19: a findBestMatch or verifyImageMatch call leaves the store as it was:
\* same keys, same values, same iteration order, whatever the outcome.
C19_StoreUntouched ==
    [][call'.op \in {"findBestMatch", "verifyImageMatch"} =>
          hashDatabase' = hashDatabase]_vars

\* a call on a non-empty store has ended in its catch block
C19_Witness ==
    /\ call.op \in {"findBestMatch", "verifyImageMatch"}
    /\ Len(hashDatabase) = MaxStore
    /\ IF call.op = "findBestMatch" THEN call.match.caught ELSE call.report.caught

\* ------------------------------------------------------------------------
\* Properties of concurrent calls
\* ------------------------------------------------------------------------

\* C20: whatever the interleaving, a call that has ended returned the hashes
\* of its own image, the ones it returns when it runs alone.
C20_CallsAreSelfContained ==
    \A j \in Jobs :
        job[j].pc = "done" =>
            /\ job[j].outcome = "returned"
            /\ job[j].hashes = AloneHashes(job[j].img)

\* what holds when the calls start in different milliseconds
C20_DistinctMilliseconds ==
    \A j \in Jobs :
        (job[j].pc = "done" /\ \A i \in Jobs \ {j} : job[i].pc # "idle" => job[i].base # job[j].base) =>
            /\ job[j].outcome = "returned"
            /\ job[j].hashes = AloneHashes(job[j].img)

\* ------------------------------------------------------------------------
\* Verification of a rotated photograph
\* ------------------------------------------------------------------------

\* the pictures registered unrotated: decodable, with a non-zero primary
Sources == {img \in Images : img.dec /\ img.orig # ZeroHash}

\* the photograph of `src` rotated by `angle` degrees: its own image-hash
\* is that of the source at this angle; restored is the image-hash after a
\* rotation (with a white background and a grown canvas) that cancels angle
RotatedQuery(src, angle, restored) ==
    LET own == IF angle <= 15 \/ angle >= 345 THEN src.tilt ELSE src.turn IN
    [src EXCEPT !.orig = own, !.once = own, !.rot = angle, !.back = restored]

\* verifyImageMatch on the rotated photograph of the one stored picture
VerifyRotatedCall ==
    /\ call.op = "none"
    /\ \E src \in Sources, k \in 1..Len(RotationAngles), restored \in HashPool :
        /\ src.orig = hashDatabase[1].hash
        /\ call' = [NoCall EXCEPT
                      !.op = "verifyImageMatch",
                      !.img = RotatedQuery(src, RotationAngles[k], restored),
                      !.report = verifyImageMatch(
                                    RotatedQuery(src, RotationAngles[k], restored),
                                    Keys(hashDatabase))]
        /\ UNCHANGED <<hashDatabase, objectDatabase, reg, response, now, firstOwner, tmp, job,
                    physicalIdDatabase, zap, orphans, form, customOwner>>

RotationInit ==
    /\ hashDatabase \in {st \in Stores : Len(st) = 1}
    /\ objectDatabase = <<>>
    /\ call = NoCall
    /\ ServerIdle

RotationNext == VerifyRotatedCall \/ Return

RotationSpec == RotationInit /\ [][RotationNext]_vars

\* a probe angle of the list cancels the rotation of the photograph
HasInverseProbe(angle) ==
    \E k \in 1..Len(RotationAngles) : (angle + RotationAngles[k]) % 360 = 0

\* the call verified a rotated photograph of the stored picture
RotatedVerified == call.op = "verifyImageMatch" /\ call.img.rot # 0

\* C21: a photograph of the stored picture rotated by an angle of the probe
\* list is accepted: the report says matched, and when the direct stage did
\* not accept it the rotation stage did, at a distance of at most 8
C21_RotatedQueryAccepted ==
    RotatedVerified =>
        /\ call.report.results.overall.matched
        /\ call.report.results.overall.method # "direct_phash" =>
              /\ call.report.results.stage2_rotation.matched
              /\ call.report.results.stage2_rotation.distance <= RotationThreshold

\* what the rotation stage does guarantee: when the probe list holds the
\* angle that cancels the rotation and the restored image hashes within 8 of
\* the stored fingerprint, the photograph is accepted
C21_RestoredQueryAccepted ==
    (/\ RotatedVerified
     /\ HasInverseProbe(call.img.rot)
     /\ amHammingDistance(call.img.back, hashDatabase[1].hash) <= RotationThreshold)
        => call.report.results.overall.matched

\* ------------------------------------------------------------------------
\* The server: custom physical IDs and POST /api/verify-physical
\* ------------------------------------------------------------------------

\* images registered with a custom physical ID
PhysicalImages == {Plain, Other}

\* a request that may carry a custom physical ID
PhysArrive(r) == Arrive(r, PhysicalImages, CustomIds)

PhysStore(r) == Store(r, Randoms)

\* physicalIdDatabase.get(str)
PhysicalGet(str) ==
    IF ~str.pad /\ str.text \in DOMAIN physicalIdDatabase
    THEN physicalIdDatabase[str.text]
    ELSE NoId

\* the identifiers a client may send: what was typed at a registration and
\* what a registration answered
PhysicalQueries == CustomIds \cup {Str(key, FALSE) : key \in DOMAIN physicalIdDatabase}

\* POST /api/verify-physical with a physicalId (lines 948-1012)
VerifyPhysical ==
    /\ response = NoResponse
    /\ \E targetPhysicalId \in PhysicalQueries :
        LET objectId == PhysicalGet(targetPhysicalId)
            answer == [NoResponse EXCEPT !.route = "verify-physical",
                                         !.requested = targetPhysicalId.text]
        IN
        IF ~Truthy(targetPhysicalId)
        THEN /\ response' = [answer EXCEPT !.status = 400,
                                !.message = "Physical ID or QR data required"]
             /\ UNCHANGED objectDatabase
        ELSE IF objectId = NoId
        THEN /\ response' = [answer EXCEPT !.status = 404,
                                !.message = "Physical ID not found"]
             /\ UNCHANGED objectDatabase
        ELSE IF objectId \notin DOMAIN objectDatabase
        THEN /\ response' = [answer EXCEPT !.status = 404,
                                !.message = "Object not found"]
             /\ UNCHANGED objectDatabase
        ELSE /\ objectDatabase[objectId].views < MaxViews
             /\ objectDatabase' = [objectDatabase EXCEPT ![objectId].views = @ + 1]
             /\ response' = [answer EXCEPT !.status = 200, !.verified = TRUE,
                                !.objectId = objectId]
    /\ UNCHANGED <<hashDatabase, call, reg, now, firstOwner, tmp, job,
                   physicalIdDatabase, zap, orphans, form, customOwner>>

\* the registrations are made one after the other, in the first slot
PhysicalNext ==
    \/ PhysArrive(1)
    \/ RegCheck(1)
    \/ PhysStore(1)
    \/ RegFail(1)
    \/ Tick
    \/ VerifyPhysical
    \/ AnswerRead

PhysicalSpec == ServerInit /\ [][PhysicalNext]_vars

\* the answer of a registration that was stored with a custom physical ID
StoredWithCustomId ==
    /\ response.route = "objects"
    /\ response.status = 200
    /\ response.requested # EmptyText

\* C23: a registration with a non-blank custom physical ID makes that ID the
\* primary physical ID of the object, and a physical verification with the
\* ID finds the created object
C23_CustomIdIsPrimary ==
    StoredWithCustomId =>
        /\ response.physicalId = response.requested
        /\ objectDatabase[response.objectId].physicalId = response.requested
        /\ PhysicalGet(Str(response.requested, FALSE)) = response.objectId

\* what does hold: the generated identifier is the primary physical ID and
\* a physical verification with it finds the created object
C23_GeneratedIdIsPrimary ==
    (response.route = "objects" /\ response.status = 200) =>
        /\ response.physicalId.kind = "full"
        /\ objectDatabase[response.objectId].physicalId = response.physicalId
        /\ PhysicalGet(Str(response.physicalId, FALSE)) = response.objectId

\* C24: custom physical IDs are unique: once an object is stored with the
\* custom ID X, a request that supplies X (after trimming) is answered 409
\* 'Physical ID already exists' and no object is created for it
C24_CustomIdIsUnique ==
    /\ \A r \in Reqs :
          reg[r].pc # "idle" =>
              trim(reg[r].customPhysicalId).text \notin DOMAIN customOwner
    /\ StoredWithCustomId => customOwner[response.requested] = response.objectId

\* what does hold: a request whose trimmed custom ID is a key of
\* physicalIdDatabase is answered 409 and goes no further
C24_KnownKeyIsRefused ==
    \A r \in Reqs :
        (reg[r].pc = "processing" /\ Truthy(trim(reg[r].customPhysicalId))) =>
            trim(reg[r].customPhysicalId).text \notin DOMAIN physicalIdDatabase

\* ------------------------------------------------------------------------
\* The server: POST /api/objects/:id/zap
\* ------------------------------------------------------------------------

\* req.body.amount: missing, or an integer
Missing == [given |-> FALSE, value |-> 0]

Amounts == {Missing} \cup {[given |-> TRUE, value |-> n] : n \in -1..MaxSats}

\* an id no object was registered under
UnknownId == generateObjectId("unknown", 0)

\* a 50/50 split that drops the odd sat
Split_Even(amount) ==
    [artistShare |-> amount \div 2, objectShare |-> amount \div 2]

\* the 50/50 split: Math.floor(amount / 2) for the artist, the rest for the
\* object (lines 831-832)
Split(amount) ==
    [artistShare |-> amount \div 2, objectShare |-> amount - (amount \div 2)]

\* the image registered while zaps are made
ZapImages == {Plain}

ZapRegArrive(r) == Arrive(r, ZapImages, {NoCustom})

\* the record a zap took from objectDatabase
Held(z) == IF zap[z].ref = 0 THEN objectDatabase[zap[z].id] ELSE orphans[zap[z].ref]

\* the zaps other than z that hold the same record as z
SameRecord(z) ==
    {y \in Zaps \ {z} : /\ zap[y].pc = "publishing"
                        /\ zap[y].id = zap[z].id
                        /\ zap[y].ref = zap[z].ref}

MapDelete(f, k) == [x \in DOMAIN f \ {k} |-> f[x]]

\* amount and object are checked and the zap event is being created and
\* published (lines 813-828)
ZapArrive(z) ==
    /\ zap[z].pc = "idle"
    /\ \A earlier \in 1..(z - 1) : zap[earlier].pc # "idle"
    /\ response = NoResponse
    /\ \E id \in DOMAIN objectDatabase \cup {UnknownId}, amount \in Amounts :
        LET answer == [NoResponse EXCEPT !.route = "zap", !.objectId = id,
                                         !.amount = amount]
        IN
        IF ~amount.given \/ amount.value = 0 \/ amount.value <= 0
        THEN /\ response' = [answer EXCEPT !.status = 400, !.message = "Invalid amount"]
             /\ UNCHANGED zap
        ELSE IF id \notin DOMAIN objectDatabase
        THEN /\ response' = [answer EXCEPT !.status = 404, !.message = "Object not found"]
             /\ UNCHANGED zap
        ELSE /\ zap' = [zap EXCEPT ![z] =
                          [pc |-> "publishing", id |-> id, amount |-> amount.value,
                           ref |-> 0]]
             /\ UNCHANGED response
    /\ UNCHANGED <<hashDatabase, objectDatabase, call, reg, now, firstOwner, tmp, job,
                   physicalIdDatabase, orphans, form, customOwner>>

\* createZapEvent has returned or thrown: the balance of the held record is
\* raised and the record is set under its id, or the catch answers 500
\* (lines 828-848)
ZapSettle(z) ==
    LET q == zap[z]
        share == Split(q.amount)
        object == [Held(z) EXCEPT !.satsBalance = @ + share.objectShare]
        answer == [NoResponse EXCEPT !.route = "zap", !.objectId = q.id,
                                     !.amount = [given |-> TRUE, value |-> q.amount]]
    IN
    /\ q.pc = "publishing"
    /\ response = NoResponse
    /\ \E published \in BOOLEAN :
        IF ~published
        THEN /\ response' = [answer EXCEPT !.status = 500]
             /\ zap' = [zap EXCEPT ![z] = IdleZap]
             /\ orphans' = IF q.ref # 0 /\ SameRecord(z) = {}
                           THEN MapDelete(orphans, q.ref) ELSE orphans
             /\ UNCHANGED objectDatabase
        ELSE /\ object.satsBalance <= MaxSats
             /\ response' = [answer EXCEPT
                               !.status = 200,
                               !.artistShare = share.artistShare,
                               !.objectShare = share.objectShare,
                               !.newBalance = object.satsBalance]
             /\ objectDatabase' = DbSet(objectDatabase, q.id, object)
             /\ IF q.ref = 0
                THEN /\ zap' = [zap EXCEPT ![z] = IdleZap]
                     /\ UNCHANGED orphans
                ELSE /\ zap' = [y \in Zaps |->
                                  IF y = z THEN IdleZap
                                  ELSE IF y \in SameRecord(z)
                                  THEN [zap[y] EXCEPT !.ref = 0]
                                  ELSE IF y \in Holders(q.id)
                                  THEN [zap[y] EXCEPT !.ref = q.ref]
                                  ELSE zap[y]]
                     /\ orphans' = IF Holders(q.id) # {}
                                   THEN [orphans EXCEPT ![q.ref] = objectDatabase[q.id]]
                                   ELSE MapDelete(orphans, q.ref)
    /\ UNCHANGED <<hashDatabase, call, reg, now, firstOwner, tmp, job,
                   physicalIdDatabase, form, customOwner>>

ZapNext ==
    \/ \E r \in Reqs : ZapRegArrive(r)
    \/ \E r \in Reqs : RegCheck(r)
    \/ \E r \in Reqs : RegStore(r)
    \/ \E r \in Reqs : RegFail(r)
    \/ Tick
    \/ \E z \in Zaps : ZapArrive(z)
    \/ \E z \in Zaps : ZapSettle(z)
    \/ AnswerRead

ZapSpec == ServerInit /\ [][ZapNext]_vars

\* ------------------------------------------------------------------------
\* Properties of the zap split
\* ------------------------------------------------------------------------

\* the step answers a zap request
ZapAnswered == response = NoResponse /\ response'.route = "zap"

\* the slot whose handler gives the answer of the step
Settled(z) == zap[z].pc = "publishing" /\ zap'[z].pc = "idle"

\* no record, held or stored, has its balance changed by the step
BalancesKept ==
    /\ objectDatabase' = objectDatabase
    /\ \A n \in DOMAIN orphans' : n \in DOMAIN orphans /\ orphans'[n] = orphans[n]

\* C22: a zap of a positive integer amount to an existing object is split
\* into artistShare = floor(amount / 2) and objectShare = amount -
\* artistShare, which sum to the amount and differ by at most 1, and the
\* balance of the object grows by exactly objectShare; a missing, zero or
\* negative amount, or an unknown id, is answered with an error, and an
\* error changes no balance
C22_ZapIsSplit ==
    [][ZapAnswered =>
        LET a == response'.amount IN
        /\ (~a.given \/ a.value <= 0) => response'.status = 400
        /\ (a.given /\ a.value > 0 /\ response'.objectId \notin DOMAIN objectDatabase)
              => response'.status = 404
        /\ response'.status # 200 => BalancesKept
        /\ response'.status = 200 =>
              /\ 2 * response'.artistShare <= a.value
              /\ 2 * response'.artistShare > a.value - 2
              /\ response'.objectShare = a.value - response'.artistShare
              /\ response'.artistShare + response'.objectShare = a.value
              /\ response'.objectShare - response'.artistShare \in {0, 1}
              /\ \A z \in Zaps : Settled(z) =>
                    /\ objectDatabase'[response'.objectId].satsBalance
                          = Held(z).satsBalance + response'.objectShare
                    /\ response'.newBalance = Held(z).satsBalance + response'.objectShare
    ]_vars

\* a zap of 3 sats was answered: 1 for the artist, 2 for the object
C22_Witness ==
    /\ response.route = "zap"
    /\ response.status = 200
    /\ response.amount.value = 3
    /\ response.artistShare = 1
    /\ response.objectShare = 2
    /\ objectDatabase[response.objectId].satsBalance = 3

\* ------------------------------------------------------------------------
\* Properties of concurrent zaps
\* ------------------------------------------------------------------------

\* the step answers a zap to id with success
ZapSucceeded(id) ==
    ZapAnswered /\ response'.status = 200 /\ response'.objectId = id

\* the step is a registration that sets a new record under id
Registered(id) ==
    \E r \in Reqs : /\ reg[r].pc = "saving"
                    /\ reg[r].uniqueId = id
                    /\ reg'[r].pc = "idle"
                    /\ response'.status = 200

\* the step is taken by a handler that holds a record replaced since
StaleZap == \E z \in Zaps : Settled(z) /\ zap[z].ref # 0

\* C29: no zap is lost: the balance of an object changes only when a zap to
\* it is answered with success, and then grows by the objectShare answered,
\* so that it is the sum of the objectShares of the zaps that succeeded; a
\* failed zap adds nothing, and the balance is never negative and never
\* decreases
C29_NoZapIsLost ==
    [][\A id \in DOMAIN objectDatabase :
          LET before == objectDatabase[id].satsBalance
              after == objectDatabase'[id].satsBalance
          IN  /\ after >= 0
              /\ after >= before
              /\ after = IF ZapSucceeded(id) THEN before + response'.objectShare
                         ELSE before
    ]_vars

\* what does hold: as long as no registration sets a new record under the id
\* of an object, the balance of the object is the sum of the objectShares
C29_NoZapIsLostOnOneRecord ==
    [][\A id \in DOMAIN objectDatabase :
          (~Registered(id) /\ ~StaleZap) =>
              LET before == objectDatabase[id].satsBalance
                  after == objectDatabase'[id].satsBalance
              IN  /\ after >= 0
                  /\ after >= before
                  /\ after = IF ZapSucceeded(id) THEN before + response'.objectShare
                             ELSE before
    ]_vars

\* ------------------------------------------------------------------------
\* Properties of the registration writes
\* ------------------------------------------------------------------------

\* the step answers a registration request
RegAnswered == response = NoResponse /\ response'.route = "objects"

\* the step refuses a registration as a near-duplicate
RefusedAsDuplicate == RegAnswered /\ response'.status = 409 /\ response'.dup.found

\* the hashes generateRobustPHashFromBuffer returns for img
BundleHashes(img) ==
    LET bundle == generateRobustPHashFromBuffer(img) IN
    {bundle.primary} \cup {bundle.variants[k] : k \in 1..Len(bundle.variants)}

\* C25: a registration refused as a near-duplicate is answered 409 with the
\* record id and the distance of the match findBestMatch returned, a stored
\* entry at most 3 bits from a hash of the image, and leaves objectDatabase,
\* hashDatabase and physicalIdDatabase as they were; hashDatabase changes
\* only when a registration is accepted, and then by the one entry that maps
\* the primary fingerprint of the image to the new id
C25_OnlyAcceptedPrimaryIsWritten ==
    [][/\ RefusedAsDuplicate =>
            /\ response'.dup =
                  findBestMatch(response'.img, hashDatabase, DuplicateThreshold).result
            /\ response'.dup.distance <= DuplicateThreshold
            /\ MapHas(hashDatabase, response'.dup.hash)
            /\ MapGet(hashDatabase, response'.dup.hash) = response'.dup.objectId
            /\ \E h \in BundleHashes(response'.img) :
                  hammingDistance(h, response'.dup.hash) = response'.dup.distance
            /\ UNCHANGED <<objectDatabase, hashDatabase, physicalIdDatabase>>
       /\ hashDatabase' # hashDatabase =>
            /\ RegAnswered
            /\ response'.status = 200
            /\ hashDatabase' =
                  MapSet(hashDatabase,
                         generateRobustPHashFromBuffer(response'.img).primary,
                         response'.objectId)
    ]_vars

\* a registration was refused as a near-duplicate while another was waiting
\* to be stored
C25_Witness ==
    /\ response.route = "objects"
    /\ response.status = 409
    /\ response.dup.found
    /\ objectDatabase # <<>>
    /\ \E r \in Reqs : reg[r].pc = "saving"

\* ------------------------------------------------------------------------
\* Properties of concurrent registrations
\* ------------------------------------------------------------------------

\* C26: whatever the interleaving of the registrations, no two registered
\* objects have primary fingerprints within 3 bits of each other, and the
\* primary fingerprint of every registered object is a key of hashDatabase
\* that maps to the id of that object
C26_StoreFollowsDuplicateRule ==
    /\ \A a, b \in DOMAIN objectDatabase :
          a # b => hammingDistance(objectDatabase[a].pHash, objectDatabase[b].pHash)
                      > DuplicateThreshold
    /\ \A a \in DOMAIN objectDatabase :
          /\ MapHas(hashDatabase, objectDatabase[a].pHash)
          /\ MapGet(hashDatabase, objectDatabase[a].pHash) = a

\* ------------------------------------------------------------------------
\* Properties of the three maps
\* ------------------------------------------------------------------------

\* every value of hashDatabase and of physicalIdDatabase is the id of an
\* object of objectDatabase
ValuesAreObjects ==
    /\ \A i \in 1..Len(hashDatabase) :
          hashDatabase[i].objectId \in DOMAIN objectDatabase
    /\ \A key \in DOMAIN physicalIdDatabase :
          physicalIdDatabase[key] \in DOMAIN objectDatabase

\* hashDatabase has at most one key for an object
OneKeyPerObject ==
    \A i, j \in 1..Len(hashDatabase) :
        hashDatabase[i].objectId = hashDatabase[j].objectId => i = j

\* a registration that was not answered 200 leaves the three maps alone
FailureAddsNothing ==
    (RegAnswered /\ response'.status # 200) =>
        UNCHANGED <<objectDatabase, hashDatabase, physicalIdDatabase>>

\* C28: in every state of the server the values of hashDatabase and of
\* physicalIdDatabase are ids of objects of objectDatabase and hashDatabase
\* has at most one key per object, and a registration that fails before the
\* final writes adds nothing to the three maps
C28_MapsAgree ==
    /\ [](ValuesAreObjects /\ OneKeyPerObject)
    /\ [][FailureAddsNothing]_vars

\* what does hold: the values are ids of stored objects, and a failed
\* registration adds nothing
C28_ValuesStoredAndFailuresClean ==
    /\ []ValuesAreObjects
    /\ [][FailureAddsNothing]_vars

\* ------------------------------------------------------------------------
\* Registration and verification of the same image
\* ------------------------------------------------------------------------

\* a verification of an image that was registered was answered
VerifiedRegistered ==
    /\ response.route = "verify"
    /\ response.img \in DOMAIN firstOwner

\* the answer reports a match of the direct stage at distance 0
DirectAtZero ==
    /\ response.verified
    /\ response.method = "direct_phash"
    /\ response.stage1_distance = 0

\* C27: registration and verification agree on the fingerprint of an image:
\* the verification of an image that was registered ends with a match of
\* the direct stage at distance 0, also for a uniform image, whose stored
\* fingerprint is the fallback digest
C27_RegisteredImageVerifiesDirectly ==
    VerifiedRegistered => DirectAtZero

\* what does hold: an image whose image-hash is not all zero is verified by
\* the direct stage at distance 0 once it is registered
C27_NonUniformVerifiesDirectly ==
    (VerifiedRegistered /\ ~HasFallbackPrimary(response.img)) => DirectAtZero

\* ------------------------------------------------------------------------
\* The CreateObject component
\* ------------------------------------------------------------------------

\* what the user types into name and artist
Words == {"", "n"}

\* the other state of the server and of the library calls
Backend ==
    <<hashDatabase, objectDatabase, call, reg, response, now, firstOwner, tmp, job,
      physicalIdDatabase, zap, orphans, customOwner>>

\* handleInputChange: { ...prev, [name]: value } (lines 20-26)
handleInputChange ==
    /\ \/ \E field \in {"name", "artist"}, value \in Words :
            form' = [form EXCEPT !.formData = DbSet(@, field, value),
                                 !.submit = "none"]
       \/ \E value \in CustomIds :
            form' = [form EXCEPT !.formData = DbSet(@, "customPhysicalId", value),
                                 !.submit = "none"]
    /\ UNCHANGED Backend

\* handleFileSelect: an image file is kept, another file is refused
\* (lines 28-42)
handleFileSelect ==
    /\ \E isImage \in BOOLEAN :
        form' = IF isImage
                THEN [form EXCEPT !.selectedFile = TRUE, !.error = "",
                                  !.submit = "none"]
                ELSE [form EXCEPT !.error = "Please select a valid image file",
                                  !.submit = "none"]
    /\ UNCHANGED Backend

\* the fields appended to the FormData (lines 89-97)
FormDataToSend(formData) ==
    [name |-> formData.name, artist |-> formData.artist,
     customPhysicalId |->
        IF Truthy(trim(formData.customPhysicalId))
        THEN trim(formData.customPhysicalId) ELSE NoCustom]

\* handleSubmit up to the fetch (lines 70-101): the submit button is
\* disabled while loading; reading customPhysicalId.trim of a formData
\* without that key throws inside the try, and finally clears loading
handleSubmit ==
    /\ form.pc = "idle"
    /\ ~form.loading
    /\ form.sent < MaxSent
    /\ form' =
          IF ~form.selectedFile
          THEN [form EXCEPT !.error = "Please select an image file",
                            !.submit = "invalid"]
          ELSE IF form.formData.name = "" \/ form.formData.artist = ""
          THEN [form EXCEPT !.error = "Name and artist are required",
                            !.submit = "invalid"]
          ELSE IF "customPhysicalId" \notin DOMAIN form.formData
          THEN [form EXCEPT !.loading = FALSE, !.result = "none",
                            !.error = "Cannot read properties of undefined",
                            !.submit = "threw"]
          ELSE [form EXCEPT !.loading = TRUE, !.error = "", !.result = "none",
                            !.pc = "fetching", !.submit = "sent",
                            !.sent = @ + 1,
                            !.request = FormDataToSend(form.formData)]
    /\ UNCHANGED Backend

\* what fetch and response.json() may give
Outcomes == {"created", "similar", "physical id exists", "refused", "network"}

\* the form after a creation (lines 118-123): name, artist, type and
\* description, without customPhysicalId
ResetFormData == [name |-> "", artist |-> ""]

\* handleSubmit from the answer on (lines 103-133); finally clears loading
\* on every path
handleAnswer ==
    /\ form.pc = "fetching"
    /\ \E outcome \in Outcomes :
        LET done == [form EXCEPT !.pc = "idle", !.loading = FALSE,
                                 !.submit = "answered"]
        IN
        form' =
          IF outcome = "created"
          THEN [done EXCEPT !.result = "success", !.formData = ResetFormData,
                            !.selectedFile = FALSE]
          ELSE IF outcome = "similar"
          THEN [done EXCEPT !.error = "Similar object already exists",
                            !.result = "duplicate"]
          ELSE IF outcome = "physical id exists"
          THEN [done EXCEPT !.error = "Cannot read properties of undefined"]
          ELSE IF outcome = "refused"
          THEN [done EXCEPT !.error = "Failed to create object"]
          ELSE [done EXCEPT !.error = "Failed to fetch"]
    /\ UNCHANGED Backend

\* the parent shows another tab and the create tab again: the component is
\* mounted anew (App.jsx lines 26-29, 92-94)
Remount ==
    /\ form.pc = "idle"
    /\ form' = [InitialForm EXCEPT !.sent = form.sent]
    /\ UNCHANGED Backend

FormNext ==
    \/ handleInputChange
    \/ handleFileSelect
    \/ handleSubmit
    \/ handleAnswer
    \/ Remount

FormSpec == ServerInit /\ [][FormNext]_vars

\* image, name and artist are given
FormComplete ==
    /\ form.selectedFile
    /\ form.formData.name # ""
    /\ form.formData.artist # ""

C30_LoadingIsCleared ==
    /\ form.pc = "idle" => ~form.loading
    /\ (FormComplete /\ form.submit \in {"sent", "threw"}
           /\ "customPhysicalId" \in DOMAIN form.formData) =>
          /\ form.submit = "sent"
          /\ form.pc = "fetching"
====
